---- MODULE Spec2Model ----
(***************************************************************************)
(* jira-releaser.py: one run of main().  Strings are sequences of          *)
(* one-character strings, so that strip/split/regex are computed the way   *)
(* the script computes them.  git, the Jira REST API and the GitHub REST   *)
(* API are the environment: the value each call returns is chosen when     *)
(* the call is made.                                                       *)
(***************************************************************************)
EXTENDS Integers, Sequences, FiniteSets, TLC

VARIABLES
    pc,              \* position of main()
    exc,             \* exception that ended the run, "" while none
    args_version,    \* args.version (<<>> when --version was not given)
    version,         \* main's local `version`
    project,         \* Jira.project (self.project), "None" until loaded
    git_tags,        \* tag lines `git tag` printed to find_previous_version_tag
    tags_ret,        \* what find_previous_version_tag did: None / tag / IndexError
    prev_version,    \* main's local `prev_version`
    log_commits,     \* commits `git log a...b` walked for list_merged_prs
    merged_prs,      \* main's local `merged_prs`
    pr_i,            \* index of the for loop over merged_prs
    jira_issue_ids,  \* main's local `jira_issue_ids`
    issue_i,         \* index of the for loop over jira_issue_ids
    calls,           \* every external call issued so far, in order
    tracker_versions,\* version names that exist in the Jira project
    fix_versions     \* issue ids whose fixVersions holds `version`

vars == <<pc, exc, args_version, version, project, git_tags, tags_ret,
          prev_version, log_commits, merged_prs, pr_i, jira_issue_ids, issue_i,
          calls, tracker_versions, fix_versions>>

----------------------------------------------------------------------------
(* Bounds *)
MaxTags == 4
MaxCommits == 5

----------------------------------------------------------------------------
(* str helpers *)

Digits == {"0","1","2","3","4","5","6","7","8","9"}
Whitespace == {" ", "\n", "\t", "\r"}

\* `c in s`
Contains(s, c) == \E i \in 1..Len(s) : s[i] = c

\* s.strip(): leading and trailing whitespace removed
RECURSIVE LStrip(_)
LStrip(s) == IF s # <<>> /\ Head(s) \in Whitespace THEN LStrip(Tail(s)) ELSE s

RECURSIVE RStrip(_)
RStrip(s) ==
    IF s # <<>> /\ s[Len(s)] \in Whitespace
    THEN RStrip(SubSeq(s, 1, Len(s) - 1)) ELSE s

Strip(s) == LStrip(RStrip(s))

\* s.split("\n"): always at least one piece ("" splits to [""])
RECURSIVE SplitFrom(_, _, _)
SplitFrom(s, i, cur) ==
    IF i > Len(s) THEN <<cur>>
    ELSE IF s[i] = "\n" THEN <<cur>> \o SplitFrom(s, i + 1, <<>>)
    ELSE SplitFrom(s, i + 1, Append(cur, s[i]))

Split(s) == SplitFrom(s, 1, <<>>)

\* "\n".join(lines) with a newline after every line, as git prints lines
RECURSIVE Lines(_)
Lines(ls) == IF ls = <<>> THEN <<>> ELSE Head(ls) \o <<"\n">> \o Lines(Tail(ls))

\* first position >= i of s that holds no digit (greedy \d+ / [\d]+)
RECURSIVE DigitsEnd(_, _)
DigitsEnd(s, i) ==
    IF i <= Len(s) /\ s[i] \in Digits THEN DigitsEnd(s, i + 1) ELSE i

\* s[i:].startswith(p)
StartsAt(s, i, p) ==
    /\ i + Len(p) - 1 <= Len(s)
    /\ \A k \in 1..Len(p) : s[i + k - 1] = p[k]

\* re.findall(prefix + "[\d]+", s): leftmost, non-overlapping, greedy
RECURSIVE FindAllFrom(_, _, _)
FindAllFrom(prefix, s, i) ==
    IF i > Len(s) THEN <<>>
    ELSE IF StartsAt(s, i, prefix) /\ DigitsEnd(s, i + Len(prefix)) > i + Len(prefix)
         THEN <<SubSeq(s, i, DigitsEnd(s, i + Len(prefix)) - 1)>>
              \o FindAllFrom(prefix, s, DigitsEnd(s, i + Len(prefix)))
         ELSE FindAllFrom(prefix, s, i + 1)

FindAll(prefix, s) == FindAllFrom(prefix, s, 1)

\* tags.index(x) + 1: first position of x in a list that holds it
Index(l, x) == CHOOSE i \in 1..Len(l) : l[i] = x /\ \A j \in 1..(i - 1) : l[j] # x

Range(l) == {l[i] : i \in 1..Len(l)}

----------------------------------------------------------------------------
(* Inputs: the command line, the repository, the code host *)

V200 == <<"v","2",".","0",".","0">>
V150 == <<"v","1",".","5",".","0">>
V100beta == <<"v","1",".","0",".","0","-","b","e","t","a">>
V100 == <<"v","1",".","0",".","0">>
V090 == <<"v","0",".","9",".","0">>
V999 == <<"v","9",".","9",".","9">>
V15 == <<"v","1",".","5">>
Bare150 == <<"1",".","5",".","0">>
V150nl == <<"v","1",".","5",".","0","\n">>
V150x == <<"v","1",".","5",".","0","x">>
V1x50 == <<"v","1",".",".","5",".","0">>

\* values of --version; <<>> is "not given" (None and "" are both falsy)
ArgVersions == {<<>>, V150, V100, V999, V15, Bare150, V150nl, V150x, V1x50, V100beta}

\* stdout of `git describe --tags`
DescribeExact == <<"v","1",".","5",".","0","\n">>
DescribeAhead == <<"v","1",".","5",".","0","-","3","-","g","a","b","1","2","\n">>
DescribeBeta == <<"v","1",".","0",".","0","-","b","e","t","a","\n">>
DescribeOutputs == {DescribeExact, DescribeAhead, DescribeBeta}

\* the tags `git tag --sort -v:refname -l "v[0-9]*"` can print, most recent first
AllTags == <<V200, V150, V100beta, V100, V090>>
TagUniverse == SubSeq(AllTags, 1, IF MaxTags < Len(AllTags) THEN MaxTags ELSE Len(AllTags))

\* commit messages `git log a...b` can walk, in log order
Commit1 == <<"[","A","B","C","-","5","]"," ","a"," ","(","#","1","0",")">>
Commit2 == <<"M","e","r","g","e"," ","#","1","1">>
Commit3 == <<"[","c","i","]"," ","d","o","c","s">>
Commit4 == <<"[","x","]"," ","(","#","1","2",")"," ","(","#","1","0",")">>
Commit5 == <<"t","y","p","o">>
Commit6 == <<"t","m","p"," ","#","x","]">>
AllCommits == <<Commit1, Commit2, Commit3, Commit4, Commit5, Commit6>>
CommitUniverse ==
    SubSeq(AllCommits, 1, IF MaxCommits < Len(AllCommits) THEN MaxCommits ELSE Len(AllCommits))

\* the subsequence of l at the positions of S
RECURSIVE SubseqAt(_, _, _)
SubseqAt(l, S, i) ==
    IF i > Len(l) THEN <<>>
    ELSE (IF i \in S THEN <<l[i]>> ELSE <<>>) \o SubseqAt(l, S, i + 1)

Subsequences(l) == {SubseqAt(l, S, 1) : S \in SUBSET (1..Len(l))}

\* --jira-project-key
ProjectKey == <<"A","B","C">>

\* the pull requests of the code host: data["title"], data["head"]["ref"]
Pr10 == <<"1","0">>
Pr11 == <<"1","1">>
Pr12 == <<"1","2">>
Title10 == <<"I","m","p","l","e","m","e","n","t","s"," ","A","B","C","-","5">>
Ref10 == <<"f","e","a","t","u","r","e","/","x">>
Title11 == <<"f","i","x">>
Ref11 == <<"f","e","a","t","u","r","e","/","A","B","C","-","6","-","t","h","i","n","g">>
Title12 == <<"A","B","C","-","5",","," ","A","B","C","-","6","0"," ","A","B","C","-">>
Ref12 == <<"a","b","c","-","7","/","A","B","C","-","5">>
PullRequestIds == {Pr10, Pr11, Pr12}
PullRequest(pr_id) ==
    IF pr_id = Pr10 THEN [title |-> Title10, ref |-> Ref10]
    ELSE IF pr_id = Pr11 THEN [title |-> Title11, ref |-> Ref11]
    ELSE [title |-> Title12, ref |-> Ref12]

----------------------------------------------------------------------------
(* The script's functions *)

\* the pattern without its `$`: anything may follow the third number
ReleaseTagMatch_Unanchored(s) ==
    LET a == DigitsEnd(s, 2)
        b == DigitsEnd(s, a + 1)
        c == DigitsEnd(s, b + 1)
    IN  /\ Len(s) >= 1 /\ s[1] = "v"
        /\ a > 2 /\ a <= Len(s) /\ s[a] = "."
        /\ b > a + 1 /\ b <= Len(s) /\ s[b] = "."
        /\ c > b + 1

\* re.match("^v\d+\.\d+\.\d+$", s): `$` also matches before one trailing "\n"
ReleaseTagMatch(s) ==
    LET a == DigitsEnd(s, 2)
        b == DigitsEnd(s, a + 1)
        c == DigitsEnd(s, b + 1)
    IN  /\ Len(s) >= 1 /\ s[1] = "v"
        /\ a > 2 /\ a <= Len(s) /\ s[a] = "."
        /\ b > a + 1 /\ b <= Len(s) /\ s[b] = "."
        /\ c > b + 1
        /\ \/ c = Len(s) + 1
           \/ c = Len(s) /\ s[c] = "\n"

NoHyphen(t) == ~Contains(t, "-")

None == [kind |-> "None", tag |-> <<>>]
IndexError == [kind |-> "IndexError", tag |-> <<>>]

\* find_previous_version_tag without the filter on "-"
find_previous_version_tag_Unfiltered(ver, printed) ==
    LET tags == Split(Strip(Lines(printed)))
    IN  IF ver \notin Range(tags) THEN None
        ELSE LET i == Index(tags, ver) - 1
             IN  IF Len(tags) <= i THEN None
                 ELSE IF i + 1 >= Len(tags) THEN IndexError
                 ELSE [kind |-> "tag", tag |-> tags[i + 2]]

\* find_previous_version_tag(version), given the tag lines git prints.
\* i is Python's 0-based tags.index(version).
find_previous_version_tag(ver, printed) ==
    LET output == Strip(Lines(printed))
        decoded == Split(output)
        tags == SelectSeq(decoded, NoHyphen)
    IN  IF ver \notin Range(tags) THEN None
        ELSE LET i == Index(tags, ver) - 1
             IN  IF Len(tags) <= i THEN None
                 ELSE IF i + 1 >= Len(tags) THEN IndexError
                 ELSE [kind |-> "tag", tag |-> tags[i + 2]]

\* git log --grep "#" --grep "]": without --all-match git keeps a commit
\* whose message matches ANY of the patterns
GrepSelects(msg) == Contains(msg, "#") \/ Contains(msg, "]")

\* list_merged_prs(prev_version, version), given the commits of the range.
\* The commit/Author/Date header lines git prints hold no "#<digits>".
list_merged_prs(commits) ==
    LET logs == Strip(Lines(SelectSeq(commits, GrepSelects)))
        found == FindAll(<<"#">>, logs)
    IN  [k \in 1..Len(found) |-> SubSeq(found[k], 2, Len(found[k]))]

\* Github.get_jira_id_from_pr(jira_project_key, pr_id), given the response
get_jira_id_from_pr(key, data) ==
    FindAll(key \o <<"-">>, data.title) \o FindAll(key \o <<"-">>, data.ref)

AlreadyExists == "A version with this name already exists in this project."

\* answers of POST /rest/api/2/version
VersionResponses ==
    { [status |-> "created",   json |-> TRUE,  name |-> "None"],
      [status |-> "HTTPError", json |-> TRUE,  name |-> AlreadyExists],
      [status |-> "HTTPError", json |-> TRUE,  name |-> "None"],
      [status |-> "HTTPError", json |-> TRUE,  name |-> "The name is too long."],
      [status |-> "HTTPError", json |-> FALSE, name |-> "None"],
      [status |-> "URLError",  json |-> FALSE, name |-> "None"] }

\* assert_version without its except block: every HTTP error propagates
assert_version_Reraise(resp) ==
    IF resp.status = "created" THEN "" ELSE resp.status

\* Jira.assert_version(version): the exception it raises, "" when it returns
assert_version(resp) ==
    IF resp.status = "created" THEN ""
    ELSE IF resp.status # "HTTPError" THEN resp.status
    ELSE IF ~resp.json THEN "JSONDecodeError"
    ELSE IF resp.name = AlreadyExists THEN ""   \* "version is already on Jira, moving on"
    ELSE ""                                     \* the except block has no else: nothing is re-raised

\* list(set(ids)): the distinct ids in an order the hash set decides
Orderings(S) ==
    {o \in [1..Cardinality(S) -> S] : \A i, j \in 1..Cardinality(S) : o[i] = o[j] => i = j}

----------------------------------------------------------------------------
(* main() *)

Call(op, arg, res) == [op |-> op, arg |-> arg, res |-> res]

Raise(e) == pc' = "failed" /\ exc' = e

Init ==
    /\ pc = "fetch_unshallow"
    /\ exc = ""
    /\ args_version \in ArgVersions
    /\ version = <<>>
    /\ project = "None"
    /\ git_tags = <<>>
    /\ tags_ret = "not called"
    /\ prev_version = <<>>
    /\ log_commits = <<>>
    /\ merged_prs = <<>>
    /\ pr_i = 1
    /\ jira_issue_ids = <<>>
    /\ issue_i = 1
    /\ calls = <<>>
    /\ tracker_versions = {}
    /\ fix_versions = {}

\* git fetch --unshallow outside a try block
FetchUnshallow_Fatal ==
    /\ pc = "fetch_unshallow"
    /\ \/ /\ calls' = Append(calls, Call("git fetch --unshallow", <<>>, "ok"))
          /\ pc' = "fetch_tags"
          /\ exc' = exc
       \/ /\ calls' = Append(calls, Call("git fetch --unshallow", <<>>, "CalledProcessError"))
          /\ Raise("CalledProcessError")
    /\ UNCHANGED <<args_version, version, project, git_tags, tags_ret,
                   prev_version, log_commits, merged_prs, pr_i, jira_issue_ids,
                   issue_i, tracker_versions, fix_versions>>

\* git fetch --unshallow; CalledProcessError is passed over
FetchUnshallow ==
    /\ pc = "fetch_unshallow"
    /\ \E res \in {"ok", "CalledProcessError"} :
          calls' = Append(calls, Call("git fetch --unshallow", <<>>, res))
    /\ pc' = "fetch_tags"
    /\ UNCHANGED <<exc, args_version, version, project, git_tags, tags_ret,
                   prev_version, log_commits, merged_prs, pr_i, jira_issue_ids,
                   issue_i, tracker_versions, fix_versions>>

\* git fetch --tags; CalledProcessError is passed over
FetchTags ==
    /\ pc = "fetch_tags"
    /\ \E res \in {"ok", "CalledProcessError"} :
          calls' = Append(calls, Call("git fetch --tags", <<>>, res))
    /\ pc' = "resolve_version"
    /\ UNCHANGED <<exc, args_version, version, project, git_tags, tags_ret,
                   prev_version, log_commits, merged_prs, pr_i, jira_issue_ids,
                   issue_i, tracker_versions, fix_versions>>

\* the strict release-tag test: return, or go on to build the clients
CheckVersion(v) ==
    /\ version' = v
    /\ exc' = exc
    /\ pc' = IF ReleaseTagMatch(v) THEN "load_project" ELSE "done"

\* version = args.version
UseArgVersion ==
    /\ pc = "resolve_version"
    /\ args_version # <<>>
    /\ CheckVersion(args_version)
    /\ UNCHANGED <<args_version, project, git_tags, tags_ret, prev_version,
                   log_commits, merged_prs, pr_i, jira_issue_ids, issue_i, calls,
                   tracker_versions, fix_versions>>

\* version = git describe --tags, stripped
DescribeVersion ==
    /\ pc = "resolve_version"
    /\ args_version = <<>>
    /\ \/ \E out \in DescribeOutputs :
             /\ calls' = Append(calls, Call("git describe --tags", <<>>, "ok"))
             /\ CheckVersion(Strip(out))
       \/ /\ calls' = Append(calls, Call("git describe --tags", <<>>, "CalledProcessError"))
          /\ Raise("CalledProcessError")
          /\ version' = version
    /\ UNCHANGED <<args_version, project, git_tags, tags_ret, prev_version,
                   log_commits, merged_prs, pr_i, jira_issue_ids, issue_i,
                   tracker_versions, fix_versions>>

\* jira.load_project()
LoadProject ==
    /\ pc = "load_project"
    /\ \/ /\ calls' = Append(calls, Call("load_project", ProjectKey, "ok"))
          /\ project' = "loaded"
          /\ pc' = "find_previous_version_tag"
          /\ exc' = exc
       \/ /\ calls' = Append(calls, Call("load_project", ProjectKey, "HTTPError"))
          /\ project' = project
          /\ Raise("HTTPError")
    /\ UNCHANGED <<args_version, version, git_tags, tags_ret, prev_version,
                   log_commits, merged_prs, pr_i, jira_issue_ids, issue_i,
                   tracker_versions, fix_versions>>

\* prev_version = find_previous_version_tag(version), falling back to version~100
FindPreviousVersionTag ==
    /\ pc = "find_previous_version_tag"
    /\ \E printed \in Subsequences(TagUniverse) :
          LET r == find_previous_version_tag(version, printed)
          IN  /\ git_tags' = printed
              /\ tags_ret' = r.kind
              /\ calls' = Append(calls, Call("git tag", <<>>, "ok"))
              /\ IF r.kind = "IndexError"
                 THEN Raise("IndexError") /\ prev_version' = prev_version
                 ELSE /\ pc' = "list_merged_prs"
                      /\ exc' = exc
                      /\ prev_version' =
                            IF r.kind = "None" THEN version \o <<"~","1","0","0">>
                            ELSE r.tag
    /\ UNCHANGED <<args_version, version, project, log_commits, merged_prs, pr_i,
                   jira_issue_ids, issue_i, tracker_versions, fix_versions>>

\* merged_prs = list_merged_prs(prev_version, version)
ListMergedPrs ==
    /\ pc = "list_merged_prs"
    /\ git_tags' = <<>>
    /\ \/ \E walked \in Subsequences(CommitUniverse) :
             /\ log_commits' = walked
             /\ merged_prs' = list_merged_prs(walked)
             /\ calls' = Append(calls, Call("git log", prev_version, "ok"))
             /\ pc' = "get_jira_id_from_pr"
             /\ exc' = exc
       \/ /\ calls' = Append(calls, Call("git log", prev_version, "CalledProcessError"))
          /\ Raise("CalledProcessError")
          /\ UNCHANGED <<log_commits, merged_prs>>
    /\ UNCHANGED <<args_version, version, project, tags_ret, prev_version, pr_i,
                   jira_issue_ids, issue_i, tracker_versions, fix_versions>>

\* one turn of: for pr_id in merged_prs: jira_issue_ids += get_jira_id_from_pr(...)
GetJiraIdFromPr ==
    /\ pc = "get_jira_id_from_pr"
    /\ pr_i <= Len(merged_prs)
    /\ log_commits' = <<>>
    /\ \/ /\ merged_prs[pr_i] \in PullRequestIds
          /\ calls' = Append(calls, Call("get_jira_id_from_pr", merged_prs[pr_i], "ok"))
          /\ jira_issue_ids' =
                jira_issue_ids \o get_jira_id_from_pr(ProjectKey, PullRequest(merged_prs[pr_i]))
          /\ pr_i' = pr_i + 1
          /\ UNCHANGED <<pc, exc>>
       \/ /\ calls' = Append(calls, Call("get_jira_id_from_pr", merged_prs[pr_i], "HTTPError"))
          /\ Raise("HTTPError")
          /\ UNCHANGED <<jira_issue_ids, pr_i>>
    /\ UNCHANGED <<args_version, version, project, git_tags, tags_ret, prev_version,
                   merged_prs, issue_i, tracker_versions, fix_versions>>

\* the accumulated list used as it is, without set()
Dedupe_KeepList ==
    /\ pc = "get_jira_id_from_pr"
    /\ pr_i > Len(merged_prs)
    /\ log_commits' = <<>>
    /\ pc' = "assert_version"
    /\ UNCHANGED <<exc, args_version, version, project, git_tags, tags_ret,
                   prev_version, merged_prs, pr_i, jira_issue_ids, issue_i, calls,
                   tracker_versions, fix_versions>>

\* the attach loop entered without the assert_version call
Dedupe_SkipAssertVersion ==
    /\ pc = "get_jira_id_from_pr"
    /\ pr_i > Len(merged_prs)
    /\ log_commits' = <<>>
    /\ jira_issue_ids' \in Orderings(Range(jira_issue_ids))
    /\ pc' = "add_fix_version_to_issue"
    /\ UNCHANGED <<exc, args_version, version, project, git_tags, tags_ret,
                   prev_version, merged_prs, pr_i, issue_i, calls,
                   tracker_versions, fix_versions>>

\* jira_issue_ids = list(set(jira_issue_ids))
Dedupe ==
    /\ pc = "get_jira_id_from_pr"
    /\ pr_i > Len(merged_prs)
    /\ log_commits' = <<>>
    /\ jira_issue_ids' \in Orderings(Range(jira_issue_ids))
    /\ pc' = "assert_version"
    /\ UNCHANGED <<exc, args_version, version, project, git_tags, tags_ret,
                   prev_version, merged_prs, pr_i, issue_i, calls,
                   tracker_versions, fix_versions>>

\* jira.assert_version(version)
AssertVersion ==
    /\ pc = "assert_version"
    /\ \E resp \in VersionResponses :
          /\ calls' = Append(calls, Call("assert_version", version,
                                         IF resp.status = "created" THEN "created"
                                         ELSE IF resp.name = AlreadyExists THEN "exists"
                                         ELSE resp.status))
          /\ tracker_versions' =
                IF resp.status = "created" \/ resp.name = AlreadyExists
                THEN tracker_versions \cup {version} ELSE tracker_versions
          /\ IF assert_version(resp) = ""
             THEN pc' = "add_fix_version_to_issue" /\ exc' = exc
             ELSE Raise(assert_version(resp))
    /\ UNCHANGED <<args_version, version, project, git_tags, tags_ret, prev_version,
                   log_commits, merged_prs, pr_i, jira_issue_ids, issue_i,
                   fix_versions>>

\* the attach loop with the HTTP error of one issue passed over
AddFixVersionToIssue_Continue ==
    /\ pc = "add_fix_version_to_issue"
    /\ issue_i <= Len(jira_issue_ids)
    /\ \/ /\ calls' = Append(calls, Call("add_fix_version_to_issue", jira_issue_ids[issue_i], "ok"))
          /\ fix_versions' = fix_versions \cup {jira_issue_ids[issue_i]}
       \/ /\ calls' = Append(calls, Call("add_fix_version_to_issue", jira_issue_ids[issue_i], "HTTPError"))
          /\ fix_versions' = fix_versions
    /\ issue_i' = issue_i + 1
    /\ UNCHANGED <<pc, exc, args_version, version, project, git_tags, tags_ret, prev_version,
                   log_commits, merged_prs, pr_i, jira_issue_ids, tracker_versions>>

\* one turn of: for issue_id in jira_issue_ids: jira.add_fix_version_to_issue(...)
AddFixVersionToIssue ==
    /\ pc = "add_fix_version_to_issue"
    /\ issue_i <= Len(jira_issue_ids)
    /\ \/ /\ calls' = Append(calls, Call("add_fix_version_to_issue", jira_issue_ids[issue_i], "ok"))
          /\ fix_versions' = fix_versions \cup {jira_issue_ids[issue_i]}
          /\ issue_i' = issue_i + 1
          /\ UNCHANGED <<pc, exc>>
       \/ /\ calls' = Append(calls, Call("add_fix_version_to_issue", jira_issue_ids[issue_i], "HTTPError"))
          /\ Raise("HTTPError")
          /\ UNCHANGED <<fix_versions, issue_i>>
    /\ UNCHANGED <<args_version, version, project, git_tags, tags_ret, prev_version,
                   log_commits, merged_prs, pr_i, jira_issue_ids, tracker_versions>>

\* the loop is over: main() returns
Return ==
    /\ pc = "add_fix_version_to_issue"
    /\ issue_i > Len(jira_issue_ids)
    /\ pc' = "done"
    /\ UNCHANGED <<exc, args_version, version, project, git_tags, tags_ret,
                   prev_version, log_commits, merged_prs, pr_i, jira_issue_ids,
                   issue_i, calls, tracker_versions, fix_versions>>

Next ==
    \/ FetchUnshallow
    \/ FetchTags
    \/ UseArgVersion
    \/ DescribeVersion
    \/ LoadProject
    \/ FindPreviousVersionTag
    \/ ListMergedPrs
    \/ GetJiraIdFromPr
    \/ Dedupe
    \/ AssertVersion
    \/ AddFixVersionToIssue
    \/ Return

Spec == Init /\ [][Next]_vars

----------------------------------------------------------------------------
(* Properties *)

TrackerAndHostOps ==
    {"load_project", "assert_version", "add_fix_version_to_issue", "get_jira_id_from_pr"}

FetchOps == {"git fetch --unshallow", "git fetch --tags"}

CallsTo(op) == {i \in 1..Len(calls) : calls[i].op = op}

\* the inputs (--version values and stripped git describe outputs) that
\* re.match("^v\d+\.\d+\.\d+$", ...) accepts, listed by hand
MatchingVersions == {V150, V100, V999, V150nl}

\* C1: whenever the resolved version string does not match ^v\d+\.\d+\.\d+$
\* (given by --version or derived from git describe), main() has returned
\* normally and no issue-tracker call and no code-host call was ever issued.
C1_NoCallsUnlessReleaseTag ==
    (version # <<>> /\ version \notin MatchingVersions) =>
        /\ pc = "done"
        /\ exc = ""
        /\ \A i \in 1..Len(calls) : calls[i].op \notin TrackerAndHostOps

C1_Witness ==
    /\ pc = "done"
    /\ version = <<"v","1",".","5",".","0","-","3","-","g","a","b","1","2">>
    /\ Len(calls) = 3

\* C10: a failed `git fetch --unshallow` or `git fetch --tags` never ends the
\* run: whatever the two commands answer, main() issues both, in this order,
\* and goes on to resolve the version; a run that failed, failed on a later call.
C10_FetchFailureNotFatal ==
    /\ pc # "fetch_unshallow" =>
          Len(calls) >= 1 /\ calls[1].op = "git fetch --unshallow"
    /\ pc \notin {"fetch_unshallow", "fetch_tags"} =>
          Len(calls) >= 2 /\ calls[2].op = "git fetch --tags"
    /\ pc \in {"fetch_unshallow", "fetch_tags", "resolve_version"} => exc = ""
    /\ pc = "failed" => Len(calls) >= 3 /\ calls[Len(calls)].op \notin FetchOps

C10_Witness ==
    /\ pc = "done"
    /\ Len(calls) >= 2
    /\ calls[1].res = "CalledProcessError"
    /\ calls[2].res = "CalledProcessError"
    /\ fix_versions # {}

\* the state find_previous_version_tag leaves, before its tag list is dropped
AfterFindPrevious ==
    \/ pc = "list_merged_prs"
    \/ pc = "failed" /\ tags_ret = "IndexError"

HasHyphen(t) == \E i \in 1..Len(t) : t[i] = "-"

\* the printed tags without every tag that holds a "-"
RECURSIVE Candidates(_)
Candidates(l) ==
    IF l = <<>> THEN <<>>
    ELSE (IF HasHyphen(Head(l)) THEN <<>> ELSE <<Head(l)>>) \o Candidates(Tail(l))

PositionIn(l, x) == CHOOSE i \in 1..Len(l) : l[i] = x

\* C2: when version is the last (oldest) of the tags without "-",
\* find_previous_version_tag returns None without raising, main() falls back
\* to "<version>~100" and goes on to list_merged_prs.
C2_OldestTagFallsBack ==
    LET F == Candidates(git_tags)
    IN  (AfterFindPrevious /\ F # <<>> /\ version = F[Len(F)]) =>
            /\ tags_ret = "None"
            /\ pc = "list_merged_prs"
            /\ prev_version = version \o <<"~","1","0","0">>

\* C4: for a version that is among the tags without "-" and is not the oldest
\* of them, find_previous_version_tag returns the tag that follows it there;
\* for a version that is not among them it returns None; a tag that holds a
\* "-" is never returned.
C4_PreviousTag ==
    LET F == Candidates(git_tags)
    IN  AfterFindPrevious =>
            /\ (version \in Range(F) /\ version # F[Len(F)]) =>
                    /\ pc = "list_merged_prs"
                    /\ tags_ret = "tag"
                    /\ prev_version = F[PositionIn(F, version) + 1]
            /\ version \notin Range(F) =>
                    /\ pc = "list_merged_prs"
                    /\ tags_ret = "None"
            /\ tags_ret = "tag" => ~HasHyphen(prev_version)

C4_Witness ==
    /\ pc = "list_merged_prs"
    /\ version = V150
    /\ git_tags = <<V200, V150, V100beta, V100>>
    /\ prev_version = V100

\* the state list_merged_prs leaves, before its commit list is dropped
AfterListMergedPrs == pc = "get_jira_id_from_pr" /\ pr_i = 1

\* the "#<digits>" numbers of a commit whose message holds both "#" and "]"
NumbersOfQualifying(msg) ==
    IF msg = Commit1 THEN <<Pr10>>
    ELSE IF msg = Commit4 THEN <<Pr12, Pr10>>
    ELSE <<>>

RECURSIVE QualifyingNumbers(_)
QualifyingNumbers(l) ==
    IF l = <<>> THEN <<>>
    ELSE NumbersOfQualifying(Head(l)) \o QualifyingNumbers(Tail(l))

\* C9: list_merged_prs returns the "#<digits>" numbers of exactly the commits
\* whose message holds both a "#" and a "]", in log order, duplicates kept; a
\* commit with "#<digits>" but no "]" contributes nothing.
C9_BothPatternsRequired ==
    AfterListMergedPrs => merged_prs = QualifyingNumbers(log_commits)

\* C3: when the POST of assert_version fails with an HTTP error that does not
\* report "A version with this name already exists in this project.", the run
\* fails there: no call follows it, so no add_fix_version_to_issue is issued.
C3_OtherHttpErrorIsFatal ==
    \A j \in CallsTo("assert_version") :
        calls[j].res = "HTTPError" => pc = "failed" /\ j = Len(calls)

Abc5 == <<"A","B","C","-","5">>
Abc6 == <<"A","B","C","-","6">>
Abc60 == <<"A","B","C","-","6","0">>

\* the issue ids a pull request's title and branch name refer to, read by hand
ReferencedBy(pr_id) ==
    IF pr_id = Pr10 THEN {Abc5}
    ELSE IF pr_id = Pr11 THEN {Abc6}
    ELSE IF pr_id = Pr12 THEN {Abc5, Abc60}
    ELSE {}

Referenced == UNION {ReferencedBy(merged_prs[k]) : k \in 1..Len(merged_prs)}

UpdatesOf(id) ==
    {i \in CallsTo("add_fix_version_to_issue") : calls[i].arg = id}

\* the run went through the whole pipeline and returned
PipelineDone == pc = "done" /\ project = "loaded"

\* C5: in one run add_fix_version_to_issue is called at most once per issue
\* id; when the run completes, every issue id that a merged pull request
\* refers to (however many times) got exactly one update, and no other did.
C5_OneUpdatePerIssue ==
    /\ \A i, j \in CallsTo("add_fix_version_to_issue") :
            calls[i].arg = calls[j].arg => i = j
    /\ PipelineDone =>
            /\ \A id \in Referenced : Cardinality(UpdatesOf(id)) = 1
            /\ \A i \in CallsTo("add_fix_version_to_issue") : calls[i].arg \in Referenced
            /\ fix_versions = Referenced

C5_Witness ==
    /\ PipelineDone
    /\ merged_prs = <<Pr10, Pr12, Pr10>>
    /\ fix_versions = {Abc5, Abc60}

C7_AlreadyExistsIsSuccess ==
    \A k \in CallsTo("assert_version") :
        calls[k].res \in {"exists", "created"} =>
            /\ ~(pc = "failed" /\ k = Len(calls))
            /\ version \in tracker_versions
            /\ pc = "done" =>
                  /\ fix_versions = Range(jira_issue_ids)
                  /\ \A id \in Range(jira_issue_ids) : Cardinality(UpdatesOf(id)) = 1

C7_Witness ==
    /\ pc = "done"
    /\ \E k \in CallsTo("assert_version") : calls[k].res = "exists"
    /\ Cardinality(fix_versions) >= 2

\* C8: when add_fix_version_to_issue fails with an HTTP error the run ends in
\* failure there: no call follows the failed one (none for the remaining
\* issues, none that undoes anything), the issues updated before keep the
\* version, and a version the run created stays in the tracker.
C8_AttachFailureIsFatal ==
    \A j \in CallsTo("add_fix_version_to_issue") :
        calls[j].res = "HTTPError" =>
            /\ j = Len(calls)
            /\ pc = "failed"
            /\ exc = "HTTPError"
            /\ fix_versions =
                  {calls[i].arg : i \in {h \in CallsTo("add_fix_version_to_issue") : h < j}}
            /\ \A k \in CallsTo("assert_version") :
                  calls[k].res = "created" => version \in tracker_versions

C8_Witness ==
    /\ pc = "failed"
    /\ calls[Len(calls)].op = "add_fix_version_to_issue"
    /\ calls[Len(calls)].res = "HTTPError"
    /\ fix_versions # {}
    /\ issue_i < Len(jira_issue_ids)

====
